---------------------------- MODULE Spec2Model ----------------------------
(***************************************************************************)
(* fzf_alt: locate the alternate (test <-> implementation) file of a       *)
(* source file.  The model follows src/src/main.rs: main() finds and loads *)
(* .fzf_alt.json, reads the arguments, builds an Alternate (two compiled   *)
(* patterns), runs `fzf -f <key> --no-sort`, and prints the first          *)
(* whitespace-separated token of fzf's output whose test classification    *)
(* differs from that of the input file.                                    *)
(*                                                                         *)
(* Strings are sequences of one-character strings.  An Option is <<>>      *)
(* (None) or <<x>> (Some(x)).                                              *)
(***************************************************************************)
EXTENDS Integers, Sequences, FiniteSets, TLC

\* ------------------------------------------------------------ bounds ----
\* Longest candidate corpus (lines on fzf's standard input).
MaxCand == 2
\* Most positional arguments on the command line.
MaxArgs == 3

\* ----------------------------------------------------------- strings ----
None == <<>>
Some(x) == <<x>>

NL == "\n"
\* char::is_whitespace, restricted to the characters of the model.
Whitespace == {" ", "\t", NL}

\* The file paths of the model: arguments and corpus lines.
Paths ==
  { <<"a">>,
    <<"a", "_", "t">>,
    <<"_", "t">>,
    <<"a", " ", "_", "t">>,
    <<"_", "t", " ", "a">>,
    <<"a", "\t", "_", "t">> }

SubStr(s, from, to) == [k \in 1..(to - from) |-> s[from + k - 1]]

\* str::split_whitespace: the maximal runs of non-whitespace, in order.
RECURSIVE SplitWs(_, _, _)
SplitWs(s, i, cur) ==
  LET flush == IF cur = <<>> THEN <<>> ELSE <<cur>> IN
  IF i > Len(s) THEN flush
  ELSE IF s[i] \in Whitespace THEN flush \o SplitWs(s, i + 1, <<>>)
  ELSE SplitWs(s, i + 1, Append(cur, s[i]))

split_whitespace(s) == SplitWs(s, 1, <<>>)

\* ------------------------------------------------------------- regex ----
\* Pattern syntax trees of the regex crate, as tuples:
\*   <<"chr", c>>  <<"set", S>>  <<"nset", S>>  <<"eol">>
\*   <<"cat", r1, r2>>  <<"opt", r>>  <<"star", r>>  <<"grp", name, r>>
\* M(re, s, i, cap) is the list, in the crate's leftmost-first preference
\* order, of the ways re matches s from position i: pairs <<end, cap>> where
\* cap is the span <<from, to>> of group "p", or None while it has not
\* participated.  Quantifiers are greedy.
RECURSIVE M(_, _, _, _)
RECURSIVE MThen(_, _, _, _)
RECURSIVE MStar(_, _, _, _)

\* continue every result of rs with re, keeping the order
MThen(rs, re, s, k) ==
  IF k > Len(rs) THEN <<>>
  ELSE M(re, s, rs[k][1], rs[k][2]) \o MThen(rs, re, s, k + 1)

\* repeat re after every result of rs that consumed something
MStar(rs, re, s, from) ==
  IF rs = <<>> THEN <<>>
  ELSE (IF rs[1][1] > from THEN M(<<"star", re>>, s, rs[1][1], rs[1][2]) ELSE <<>>)
       \o MStar(Tail(rs), re, s, from)

M(re, s, i, cap) ==
  CASE re[1] = "chr" ->
         IF i <= Len(s) /\ s[i] = re[2] THEN << <<i + 1, cap>> >> ELSE <<>>
    [] re[1] = "set" ->
         IF i <= Len(s) /\ s[i] \in re[2] THEN << <<i + 1, cap>> >> ELSE <<>>
    [] re[1] = "nset" ->
         IF i <= Len(s) /\ s[i] \notin re[2] THEN << <<i + 1, cap>> >> ELSE <<>>
    [] re[1] = "eol" ->
         IF i = Len(s) + 1 THEN << <<i, cap>> >> ELSE <<>>
    [] re[1] = "cat" -> MThen(M(re[2], s, i, cap), re[3], s, 1)
    [] re[1] = "opt" -> M(re[2], s, i, cap) \o << <<i, cap>> >>
    [] re[1] = "star" -> MStar(M(re[2], s, i, cap), re[2], s, i) \o << <<i, cap>> >>
    [] re[1] = "grp" ->
         LET rs == M(re[3], s, i, cap) IN
         [k \in 1..Len(rs) |->
            <<rs[k][1], IF re[2] = "p" THEN <<i, rs[k][1]>> ELSE rs[k][2]>>]

\* Regex::captures: the preferred match at the leftmost position that has
\* one, as Some(<<end, cap>>); None when the pattern matches nowhere.
RECURSIVE CapturesFrom(_, _, _)
CapturesFrom(re, s, i) ==
  IF i > Len(s) + 1 THEN None
  ELSE LET rs == M(re, s, i, None) IN
       IF rs # <<>> THEN Some(rs[1]) ELSE CapturesFrom(re, s, i + 1)

captures(re, s) == CapturesFrom(re, s, 1)

\* Regex::is_match: a search, true iff the pattern matches somewhere.
is_match(re, s) == captures(re, s) # None

Plus(r) == <<"cat", r, <<"star", r>>>>
Cat3(a, b, c) == <<"cat", a, <<"cat", b, c>>>>
Cat4(a, b, c, d) == <<"cat", a, Cat3(b, c, d)>>

\* The pattern sources a configuration of the model may hold.  "(" is not
\* a pattern: Regex::new rejects it.
PatternSources ==
  { "_t$", "_t", "(?P<p>[^_]+)_?t?$", "(?P<p>a*)_t$", "(?P<p>a)?_t", "(a)_t", "(" }

\* Regex::new: Some(tree) for a pattern that compiles, None for one that
\* does not.
RegexNew(src) ==
  CASE src = "_t$" -> Some(Cat3(<<"chr", "_">>, <<"chr", "t">>, <<"eol">>))
    [] src = "_t" -> Some(<<"cat", <<"chr", "_">>, <<"chr", "t">>>>)
    [] src = "(?P<p>[^_]+)_?t?$" ->
         Some(Cat4(<<"grp", "p", Plus(<<"nset", {"_"}>>)>>,
                   <<"opt", <<"chr", "_">>>>,
                   <<"opt", <<"chr", "t">>>>,
                   <<"eol">>))
    [] src = "(?P<p>a*)_t$" ->
         Some(Cat4(<<"grp", "p", <<"star", <<"chr", "a">>>>>>,
                   <<"chr", "_">>, <<"chr", "t">>, <<"eol">>))
    [] src = "(?P<p>a)?_t" ->
         Some(Cat3(<<"opt", <<"grp", "p", <<"chr", "a">>>>>>,
                   <<"chr", "_">>, <<"chr", "t">>))
    [] src = "(a)_t" ->
         Some(Cat3(<<"grp", "", <<"chr", "a">>>>, <<"chr", "_">>, <<"chr", "t">>))
    [] OTHER -> None

\* ------------------------------------------------------- configuration ----
\* serde_json::Value of one field of a filetype entry.
Absent == [kind |-> "absent", src |-> ""]
Number == [kind |-> "number", src |-> ""]
Str(src) == [kind |-> "str", src |-> src]

\* Value::as_str
as_str(v) == IF v.kind = "str" THEN Some(v.src) ELSE None

Entry(strip, is_test) == [strip |-> strip, is_test |-> is_test]

\* The filetypes a command line of the model may name; no configuration
\* of the model has an entry for "haskell".
Filetypes == {"elixir", "python", "haskell"}

\* The parsed contents of .fzf_alt.json: a map from filetype to entry.
Configs ==
  { ("elixir" :> Entry(Str("(?P<p>[^_]+)_?t?$"), Str("_t$")) @@
     "python" :> Entry(Str("(?P<p>a*)_t$"), Str("_t"))),
    ("elixir" :> Entry(Str("(?P<p>a)?_t"), Str("_t$")) @@
     "python" :> Entry(Str("(a)_t"), Str("_t$"))),
    ("elixir" :> Entry(Absent, Str("_t$")) @@
     "python" :> Entry(Number, Str("("))),
    ("elixir" :> Entry(Str("("), Absent) @@
     "python" :> Entry(Str("(a)_t"), Number)),
    ("elixir" :> Entry(Str("("), Str("(")) @@
     "python" :> Entry(Str("("), Str("_t$"))) }

\* ---------------------------------------------------------- Alternate ----
\* The outcome of Alternate::new: the Alternate, or the .expect() that
\* panicked, and the steps it got through before that.
NewOk(alt) == [ok |-> TRUE, cause |-> "none", alt |-> Some(alt), steps |-> {"lookup", "compile"}]
NewPanic(cause, steps) == [ok |-> FALSE, cause |-> cause, alt |-> None, steps |-> steps]

\* Mutant of NewFromEntry: the patterns are not compiled at construction;
\* one that does not compile becomes a pattern that matches nothing.
NewFromEntryUnchecked(filetype_config, filename) ==
  LET strip_regex == as_str(filetype_config.strip)
      is_test_regex == as_str(filetype_config.is_test)
      Lazy(src) == IF RegexNew(src) = None THEN <<"set", {}>> ELSE RegexNew(src)[1]
  IN
  IF strip_regex = None THEN NewPanic("strip_undefined", {"lookup"})
  ELSE IF is_test_regex = None THEN NewPanic("is_test_undefined", {"lookup"})
  ELSE NewOk([filename |-> filename,
              is_test_regex |-> Lazy(is_test_regex[1]),
              strip_regex |-> Lazy(strip_regex[1])])

\* Alternate::new after the lookup, lines 22-40: both fields must be
\* strings, then is_test is compiled, then strip.
NewFromEntry(filetype_config, filename) ==
  LET strip_regex == as_str(filetype_config.strip)
      is_test_regex == as_str(filetype_config.is_test)
  IN
  IF strip_regex = None THEN NewPanic("strip_undefined", {"lookup"})
  ELSE IF is_test_regex = None THEN NewPanic("is_test_undefined", {"lookup"})
  ELSE LET is_test_re == RegexNew(is_test_regex[1])
           strip_re == RegexNew(strip_regex[1])
       IN
       IF is_test_re = None
       THEN NewPanic("is_test_regex_invalid", {"lookup", "compile"})
       ELSE IF strip_re = None
       THEN NewPanic("strip_regex_invalid", {"lookup", "compile"})
       ELSE NewOk([filename |-> filename,
                   is_test_regex |-> is_test_re[1],
                   strip_regex |-> strip_re[1]])

\* Mutant of AlternateNew: an unknown filetype falls back to the "elixir"
\* entry instead of panicking.
AlternateNewFallback(filetype, filename, config) ==
  NewFromEntry(config[IF filetype \in DOMAIN config THEN filetype ELSE "elixir"],
               filename)

\* Alternate::new, lines 17-41.
AlternateNew(filetype, filename, config) ==
  IF filetype \notin DOMAIN config
  THEN NewPanic("unknown_filetype", {"lookup"})
  ELSE NewFromEntry(config[filetype], filename)

\* Alternate::strip_filename
strip_filename(self) ==
  LET caps == captures(self.strip_regex, self.filename) IN
  IF caps = None THEN self.filename
  ELSE LET m == caps[1][2] IN
       IF m = None THEN self.filename
       ELSE SubStr(self.filename, m[1], m[2])

\* Alternate::is_test
is_test(self, filename) == is_match(self.is_test_regex, filename)

\* Mutant of get_alternate_file: the classification filter is lost and the
\* first token is returned.
get_alternate_file_unfiltered(self, files) ==
  LET result == split_whitespace(files)
  IN IF result = <<>> THEN None ELSE Some(result[1])

\* Alternate::get_alternate_file
get_alternate_file(self, files) ==
  LET result == SelectSeq(split_whitespace(files),
                          LAMBDA file : is_test(self, file) # is_test(self, self.filename))
  IN IF result = <<>> THEN None ELSE Some(result[1])

\* --------------------------------------------------------------- main ----
\* The command line with n positional arguments.
RECURSIVE Extra(_)
Extra(n) == IF n <= 0 THEN <<>> ELSE Append(Extra(n - 1), <<"x">>)

CommandLine(n, filename, filetype) ==
  <<"fzf_alt">> \o SubSeq(<<filename, filetype>>, 1, IF n < 2 THEN n ELSE 2)
               \o Extra(n - 2)

\* Mutant of Dispatch: a further positional argument is ignored and the
\* single-file branch runs.
DispatchFallthrough(a) ==
  IF Len(a) < 3 THEN "missing" ELSE "single"

\* The branch main takes on its arguments.
Dispatch(a) ==
  IF Len(a) < 2 THEN "missing"
  ELSE IF Len(a) = 2 THEN "missing"
  ELSE IF Len(a) = 3 THEN "single"
  ELSE "noop"

\* Mutant of WaitReturns: the output is taken without waiting for the child.
WaitReturnsEarly(childState) == childState \in {"running", "exited"}

\* wait_with_output returns once the child has terminated.
WaitReturns(childState) == childState = "exited"

\* The corpora fzf may read from the inherited standard input.
RECURSIVE SeqsUpTo(_, _)
SeqsUpTo(S, n) ==
  IF n = 0 THEN {<<>>}
  ELSE LET shorter == SeqsUpTo(S, n - 1) IN
       shorter \cup {Append(q, x) : q \in shorter, x \in S}

Corpora == SeqsUpTo(Paths, MaxCand)

VARIABLES
  pc,          \* where main is
  configPath,  \* the configuration file chosen, "" when none exists
  config,      \* Option: the loaded configuration
  args,        \* the command line
  alternate,   \* Option: the Alternate built by Alternate::new
  key,         \* Option: the query handed to fzf
  spawns,      \* how many times main tried to spawn fzf
  child,       \* "none", "running" or "exited"
  stdin,       \* the corpus the child reads, a sequence of lines
  childPos,    \* how many corpus lines the child has read
  childOut,    \* what the child has written to its standard output
  childStatus, \* Option: the child's exit status
  files,       \* Option: the output captured by run_fzf
  result,      \* Option: the path picked by get_alternate_file
  stdout,      \* the lines main has printed
  exitCode,    \* Option: the exit status of the run
  cause,       \* why the run ended
  did          \* the steps of a resolution performed so far

vars == <<pc, configPath, config, args, alternate, key, spawns, child, stdin,
          childPos, childOut, childStatus, files, result, stdout, exitCode,
          cause, did>>

childVars == <<child, stdin, childPos, childOut, childStatus>>

Init ==
  /\ pc = "start"
  /\ configPath = ""
  /\ config = None
  /\ args = <<>>
  /\ alternate = None
  /\ key = None
  /\ spawns = 0
  /\ child = "none"
  /\ stdin = <<>>
  /\ childPos = 0
  /\ childOut = <<>>
  /\ childStatus = None
  /\ files = None
  /\ result = None
  /\ stdout = <<>>
  /\ exitCode = None
  /\ cause = "none"
  /\ did = {}

\* The process ends with status `code`.
Exit(code, why) ==
  /\ pc' = "done"
  /\ exitCode' = Some(code)
  /\ cause' = why

\* main, lines 86-96: pick the configuration file, or exit(1).
FindConfig ==
  /\ pc = "start"
  /\ \E current_exists, alternate_exists \in BOOLEAN :
       IF current_exists
       THEN configPath' = ".fzf_alt.json" /\ pc' = "load" /\ UNCHANGED <<exitCode, cause>>
       ELSE IF alternate_exists
       THEN configPath' = "~/.fzf_alt.json" /\ pc' = "load" /\ UNCHANGED <<exitCode, cause>>
       ELSE configPath' = "" /\ Exit(1, "config_not_found")
  /\ UNCHANGED <<config, args, alternate, key, spawns, childVars, files, result,
                 stdout, did>>

\* main, line 98: load_config(...)?  On Err main returns it: status 1.
LoadConfig ==
  /\ pc = "load"
  /\ \/ /\ Exit(1, "config_load")
        /\ UNCHANGED config
     \/ /\ \E c \in Configs : config' = Some(c)
        /\ pc' = "args"
        /\ UNCHANGED <<exitCode, cause>>
  /\ UNCHANGED <<configPath, args, alternate, key, spawns, childVars, files,
                 result, stdout, did>>

\* main, lines 99-123 up to the call of Alternate::new: collect the
\* arguments and take a branch.
ReadArgs ==
  /\ pc = "args"
  /\ \E n \in 0..MaxArgs, filename \in Paths, filetype \in Filetypes :
       /\ args' = CommandLine(n, filename, filetype)
       /\ CASE Dispatch(args') = "missing" -> Exit(1, "missing_args")
            [] Dispatch(args') = "single" ->
                 pc' = "new" /\ UNCHANGED <<exitCode, cause>>
            [] Dispatch(args') = "noop" -> Exit(0, "none")
  /\ UNCHANGED <<configPath, config, alternate, key, spawns, childVars, files,
                 result, stdout, did>>

\* main, line 115: Alternate::new; a failed .expect() panics: status 101.
New ==
  /\ pc = "new"
  /\ LET r == AlternateNew(args[3], args[2], config[1]) IN
       /\ did' = did \cup r.steps
       /\ alternate' = r.alt
       /\ IF r.ok
          THEN pc' = "run_fzf" /\ UNCHANGED <<exitCode, cause>>
          ELSE Exit(101, r.cause)
  /\ UNCHANGED <<configPath, config, args, key, spawns, childVars, files,
                 result, stdout>>

\* main, line 116 and run_fzf, lines 65-70: extract the key and spawn fzf
\* with the inherited standard input; a failed spawn panics.
RunFzfSpawn ==
  /\ pc = "run_fzf"
  /\ key' = Some(strip_filename(alternate[1]))
  /\ did' = did \cup {"key"}
  /\ spawns' = spawns + 1
  /\ \/ /\ Exit(101, "spawn_failed")
        /\ UNCHANGED childVars
     \/ /\ child' = "running"
        /\ \E corpus \in Corpora : stdin' = corpus
        /\ pc' = "wait"
        /\ UNCHANGED <<childPos, childOut, childStatus, exitCode, cause>>
  /\ UNCHANGED <<configPath, config, args, alternate, files, result, stdout>>

\* fzf -f --no-sort: read the next corpus line and either write it out
\* (it matches the query) or drop it.  The matching itself is fzf's.
ChildStep ==
  /\ child = "running"
  /\ childPos < Len(stdin)
  /\ childPos' = childPos + 1
  /\ \/ childOut' = childOut \o stdin[childPos + 1] \o <<NL>>
     \/ childOut' = childOut
  /\ UNCHANGED <<pc, configPath, config, args, alternate, key, spawns, child,
                 stdin, childStatus, files, result, stdout, exitCode, cause, did>>

\* fzf terminates: at the end of its input with status 0, or 1 when
\* nothing matched; or at any time with status 2 (an error, a signal).
ChildExit ==
  /\ child = "running"
  /\ child' = "exited"
  /\ \/ /\ childPos = Len(stdin)
        /\ childStatus' = Some(IF childOut = <<>> THEN 1 ELSE 0)
     \/ childStatus' = Some(2)
  /\ UNCHANGED <<pc, configPath, config, args, alternate, key, spawns, stdin,
                 childPos, childOut, files, result, stdout, exitCode, cause, did>>

\* run_fzf, lines 72-75: wait for the child and take its whole output;
\* a failed wait panics.
WaitWithOutput ==
  /\ pc = "wait"
  /\ WaitReturns(child)
  /\ \/ /\ Exit(101, "wait_failed")
        /\ UNCHANGED files
     \/ /\ files' = Some(childOut)
        /\ pc' = "resolve"
        /\ UNCHANGED <<exitCode, cause>>
  /\ UNCHANGED <<configPath, config, args, alternate, key, spawns, childVars,
                 result, stdout, did>>

\* main, lines 117-119 and 125: scan the output; print the path found and
\* return Ok (status 0), or exit(1) without printing.
Resolve ==
  /\ pc = "resolve"
  /\ result' = get_alternate_file(alternate[1], files[1])
  /\ did' = did \cup {"scan"}
  /\ IF result' # None
     THEN stdout' = Append(stdout, result'[1]) /\ Exit(0, "none")
     ELSE stdout' = stdout /\ Exit(1, "no_alternate")
  /\ UNCHANGED <<configPath, config, args, alternate, key, spawns, childVars,
                 files>>

Next ==
  \/ FindConfig
  \/ LoadConfig
  \/ ReadArgs
  \/ New
  \/ RunFzfSpawn
  \/ ChildStep
  \/ ChildExit
  \/ WaitWithOutput
  \/ Resolve

Spec == Init /\ [][Next]_vars

\* ------------------------------------------------------------- claims ----
\* str::lines: the pieces between line feeds, a final empty piece dropped.
\* The specification's "line-split".
RECURSIVE LinesFrom(_, _, _)
LinesFrom(s, i, cur) ==
  IF i > Len(s) THEN (IF cur = <<>> THEN <<>> ELSE <<cur>>)
  ELSE IF s[i] = NL THEN <<cur>> \o LinesFrom(s, i + 1, <<>>)
  ELSE LinesFrom(s, i + 1, Append(cur, s[i]))

Lines(s) == LinesFrom(s, 1, <<>>)

Range(q) == {q[k] : k \in 1..Len(q)}

Finished == pc = "done"
Scanned == "scan" \in did
NothingResolved == spawns = 0 /\ child = "none" /\ stdout = <<>>

\* the classification of f is opposite to that of the input file
Opposite(self, f) == is_test(self, f) # is_test(self, self.filename)

\* C1: whenever get_alternate_file returns a path, its test classification
\* differs from that of the input filename; so the input filename itself is
\* never returned, even when the ranker's output holds it verbatim.
OppositeClassification ==
  result # None =>
    /\ is_test(alternate[1], result[1]) # is_test(alternate[1], args[2])
    /\ result[1] # args[2]

\* C1 witness: a path was returned although the input filename is a line of
\* the ranker's output.
OppositeClassificationWitness ==
  /\ result # None
  /\ args[2] \in Range(Lines(files[1]))

\* C2: the result is the earliest line of the ranker's output whose
\* classification is opposite to the input file's, and "no alternate found"
\* exactly when no line qualifies.
OrderPreservation ==
  Scanned =>
    LET qualifying == SelectSeq(Lines(files[1]),
                                LAMBDA f : Opposite(alternate[1], f))
    IN result = IF qualifying = <<>> THEN None ELSE Some(qualifying[1])

\* C3: the candidates the resolver scans are exactly the lines of the
\* matcher's output, so a resolved path is one whole line of it and a member
\* of the candidate corpus, also for paths that contain spaces or tabs.
ResultMembership ==
  Scanned /\ result # None =>
    /\ split_whitespace(files[1]) = Lines(files[1])
    /\ result[1] \in Range(Lines(files[1]))
    /\ result[1] \in Range(stdin)

\* C4: the key is the capture of group p when the strip pattern matches and
\* p took part with a non-empty capture; in every other case (no match, no
\* group p, p took no part, p captured the empty string) it is the filename.
KeyExtractionFallback ==
  key # None =>
    LET caps == captures(alternate[1].strip_regex, args[2])
        captured == caps # None /\ caps[1][2] # None /\ caps[1][2][1] < caps[1][2][2]
    IN key[1] = IF captured THEN SubStr(args[2], caps[1][2][1], caps[1][2][2])
                ELSE args[2]

\* a run whose requested filetype is no key of the loaded rule table
UnknownFiletypeRun ==
  config # None /\ Len(args) >= 3 /\ args[3] \notin DOMAIN config[1]

\* C5 as stated: a run whose filetype is no key of the loaded rule table ends
\* in the unknown-filetype failure with a non-zero status, prints nothing and
\* never spawns the matcher.
UnknownFiletypeFails ==
  UnknownFiletypeRun =>
    /\ NothingResolved
    /\ Finished => cause = "unknown_filetype" /\ exitCode[1] # 0

\* C5 amended: a run whose filetype is no key of the loaded rule table prints
\* nothing and never spawns the matcher; invoked with exactly a filename and
\* a filetype it ends in the unknown-filetype failure with a non-zero status.
UnknownFiletypeFailsSingle ==
  UnknownFiletypeRun =>
    /\ NothingResolved
    /\ Finished /\ Len(args) = 3 => cause = "unknown_filetype" /\ exitCode[1] # 0

\* C5 witness: a run ended in the unknown-filetype failure.
UnknownFiletypeWitness ==
  UnknownFiletypeRun /\ Finished /\ cause = "unknown_filetype"

\* C6 (its observable part): when fzf cannot be started or ends with a
\* non-zero status, the run fails and no path is selected or printed.
MatcherFailureFatal ==
  Finished /\ (cause = "spawn_failed" \/ (childStatus # None /\ childStatus[1] # 0)) =>
    exitCode[1] # 0 /\ result = None /\ stdout = <<>>

\* C7: status 0 only with a path printed; missing arguments, unknown
\* filetype, configuration load failure, matcher failure and "no alternate
\* found" each end non-zero with nothing printed.
ExitStatusContract ==
  Finished =>
    /\ exitCode[1] = 0 => stdout # <<>>
    /\ \/ cause \in {"missing_args", "unknown_filetype", "config_not_found",
                     "config_load", "spawn_failed", "wait_failed", "no_alternate"}
       \/ (childStatus # None /\ childStatus[1] # 0)
       => exitCode[1] # 0 /\ stdout = <<>>

\* what is wrong with a filetype entry
Faults(e) ==
  (IF as_str(e.strip) = None THEN {"strip_undefined"}
   ELSE IF RegexNew(e.strip.src) = None THEN {"strip_regex_invalid"} ELSE {})
  \cup
  (IF as_str(e.is_test) = None THEN {"is_test_undefined"}
   ELSE IF RegexNew(e.is_test.src) = None THEN {"is_test_regex_invalid"} ELSE {})

\* a run whose filetype entry lacks a string field or holds a bad pattern
BadEntryRun ==
  /\ config # None
  /\ Len(args) >= 3
  /\ args[3] \in DOMAIN config[1]
  /\ Faults(config[1][args[3]]) # {}

\* C8 as stated: with a configuration that cannot be loaded, or an entry that
\* lacks a string field or holds a pattern that does not compile, the run
\* aborts with that cause; no key is extracted, fzf is never spawned and
\* nothing is printed.
ConfigErrorsPrecede ==
  /\ config = None => did = {} /\ NothingResolved
  /\ config = None /\ Finished =>
       exitCode[1] # 0 /\ cause \in {"config_not_found", "config_load"}
  /\ BadEntryRun => "key" \notin did /\ NothingResolved
  /\ BadEntryRun /\ Finished =>
       exitCode[1] # 0 /\ cause \in Faults(config[1][args[3]])

\* C8 amended: as C8, but a faulty entry aborts the run only when the program
\* is invoked with exactly a filename and a filetype.
ConfigErrorsPrecedeSingle ==
  /\ config = None => did = {} /\ NothingResolved
  /\ config = None /\ Finished =>
       exitCode[1] # 0 /\ cause \in {"config_not_found", "config_load"}
  /\ BadEntryRun => "key" \notin did /\ NothingResolved
  /\ BadEntryRun /\ Finished /\ Len(args) = 3 =>
       exitCode[1] # 0 /\ cause \in Faults(config[1][args[3]])

\* C8 witness: a run aborted on an entry with more than one fault.
ConfigErrorsWitness ==
  /\ BadEntryRun /\ Finished /\ Len(args) = 3
  /\ Cardinality(Faults(config[1][args[3]])) > 1

\* C9: fzf is spawned at most once; its output is scanned only after it has
\* terminated and all of its output was captured; nothing is classified,
\* selected or printed while it runs.
SingleBlockingRoundTrip ==
  /\ spawns <= 1
  /\ files # None \/ Scanned => child = "exited" /\ files = Some(childOut)
  /\ child = "running" => ~Scanned /\ result = None /\ stdout = <<>>

\* C9 witness: the output of a child that wrote something was scanned.
SingleBlockingRoundTripWitness ==
  Scanned /\ childOut # <<>> /\ spawns = 1

\* C10: with the configuration loaded and a filename, a filetype and one
\* further positional argument, nothing is resolved: no lookup, no pattern
\* compiled, no fzf, nothing printed, whether or not the filetype is known.
SecondArgumentNoop ==
  config # None /\ Len(args) = 4 =>
    did = {} /\ alternate = None /\ key = None /\ NothingResolved

\* C10 witness: such a run ended, its filetype unknown to the rule table.
SecondArgumentNoopWitness ==
  /\ config # None /\ Len(args) = 4 /\ Finished
  /\ args[3] \notin DOMAIN config[1]
=============================================================================
